---- MODULE Spec2Model ----
(***************************************************************************)
(* Error normalisation and query invalidation of the project templates:    *)
(* the ky client (with or without the beforeError hook), the product       *)
(* service (with or without .catch(throwApiResponseErrFromKyErr)), the     *)
(* query option factories and the create mutation.                         *)
(***************************************************************************)
EXTENDS Integers, Sequences, FiniteSets, TLC

\* number of service calls one behaviour may start
MaxCalls == 2

\* number of query descriptors one behaviour may build
MaxBuilt == 2

Calls == 1..MaxCalls

Nil == [cls |-> "nil"]

(***************************************************************************)
(* Parsed JSON values.  str is String(value), what Error(message) stores.  *)
(***************************************************************************)
Undefined == [kind |-> "undefined", str |-> "undefined"]
JStr(s) == [kind |-> "string", str |-> s]
JNum(s) == [kind |-> "number", str |-> s]
JNull == [kind |-> "null", str |-> "null"]
JArr == [kind |-> "array", str |-> ""]
JObj(fields) == [kind |-> "object", str |-> "[object Object]", fields |-> fields]

\* response bodies as sent on the wire
BodyInvalidFilter == "{\"message\":\"invalid filter\"}"
BodyNameTaken == "{\"message\":\"name taken\",\"code\":7}"
BodyEmptyMessage == "{\"message\":\"\"}"
BodyNumberMessage == "{\"message\":42}"
BodyNullMessage == "{\"message\":null}"
BodyObjectMessage == "{\"message\":{\"text\":\"bad\"}}"
BodyDetail == "{\"detail\":\"invalid filter\"}"
BodyEmptyObject == "{}"
BodyArray == "[]"
BodyNull == "null"
BodyString == "\"invalid filter\""
BodyHtml == "<html>Internal Server Error</html>"
BodyEmpty == ""

\* Response.json(): ok = FALSE is a rejection with a SyntaxError
JsonParse(raw) ==
  CASE raw = BodyInvalidFilter -> [ok |-> TRUE, value |-> JObj([message |-> JStr("invalid filter")])]
    [] raw = BodyNameTaken -> [ok |-> TRUE, value |-> JObj([message |-> JStr("name taken"), code |-> JNum("7")])]
    [] raw = BodyEmptyMessage -> [ok |-> TRUE, value |-> JObj([message |-> JStr("")])]
    [] raw = BodyNumberMessage -> [ok |-> TRUE, value |-> JObj([message |-> JNum("42")])]
    [] raw = BodyNullMessage -> [ok |-> TRUE, value |-> JObj([message |-> JNull])]
    [] raw = BodyObjectMessage -> [ok |-> TRUE, value |-> JObj([message |-> JObj([text |-> JStr("bad")])])]
    [] raw = BodyDetail -> [ok |-> TRUE, value |-> JObj([detail |-> JStr("invalid filter")])]
    [] raw = BodyEmptyObject -> [ok |-> TRUE, value |-> JObj([f \in {} |-> Undefined])]
    [] raw = BodyArray -> [ok |-> TRUE, value |-> JArr]
    [] raw = BodyNull -> [ok |-> TRUE, value |-> JNull]
    [] raw = BodyString -> [ok |-> TRUE, value |-> JStr("invalid filter")]
    [] OTHER -> [ok |-> FALSE, value |-> Undefined]

\* es-toolkit isPlainObject: arrays, null and primitives are not plain objects
isPlainObject(data) == data.kind = "object"

\* 'message' in data
HasMessageKey(data) == "message" \in DOMAIN data.fields

isDataApiErrorResponse(data) == isPlainObject(data) /\ HasMessageKey(data)

(***************************************************************************)
(* Thrown values.  id is the identity of the error object.                 *)
(***************************************************************************)
HTTPError(id, status, raw) ==
  [cls |-> "HTTPError", id |-> id, status |-> status, body |-> raw,
   message |-> "Request failed"]

NetworkError(id, cls) == [cls |-> cls, id |-> id, message |-> "Failed to fetch"]

SyntaxError(id) == [cls |-> "SyntaxError", id |-> id, message |-> "Unexpected token"]

IsHTTPError(err) == err.cls = "HTTPError"

\* err instanceof ApiResponseError: false for undefined, null and every
\* value of another class
IsApiResponseError(err) == "cls" \in DOMAIN err /\ err.cls = "ApiResponseError"

\* new Error(message)
PlainError(message) == [cls |-> "Error", id |-> 0, message |-> message]

\* plausible slip: super(err.message) instead of super(data.message)
ApiResponseErrorFromErr(err, data) ==
  [cls |-> "ApiResponseError", name |-> "ApiResponseError",
   message |-> err.message, err |-> err, data |-> data]

\* plausible slip: the error keeps a copy of the failure, not the failure
ApiResponseErrorOfCopy(err, data) ==
  [cls |-> "ApiResponseError", name |-> "ApiResponseError",
   message |-> data.fields.message.str, err |-> [err EXCEPT !.id = 0], data |-> data]

\* new ApiResponseError(err, data): super(data.message)
ApiResponseError(err, data) ==
  [cls |-> "ApiResponseError", name |-> "ApiResponseError",
   message |-> data.fields.message.str, err |-> err, data |-> data]

\* plausible slip: the message of any Error is handed out
getMessageFromAnyError(err) ==
  IF "message" \in DOMAIN err THEN JStr(err.message) ELSE Undefined

getMessageFromApiResponseError(err) ==
  IF ~IsApiResponseError(err) THEN Undefined ELSE err.data.fields.message

(***************************************************************************)
(* The classifier, in the pieces between its suspension points.            *)
(***************************************************************************)
\* plausible slip: the instanceof HTTPError guard is missing
ThrowsBeforeReadNever(err) == FALSE

\* plausible slip: the guard passes an ApiResponseError on to the body read
ThrowsBeforeReadSubclass(err) == ~(IsHTTPError(err) \/ IsApiResponseError(err))

\* throwApiResponseErrFromKyErr up to its await: TRUE when it throws err at once
ThrowsBeforeRead(err) == ~IsHTTPError(err)

\* plausible slip: an unrecognized body is wrapped in a fresh Error
ThrowAfterReadWrapped(err, parsed) ==
  IF ~parsed.ok THEN SyntaxError(err.id)
  ELSE IF ~isDataApiErrorResponse(parsed.value)
       THEN [cls |-> "Error", id |-> err.id, message |-> "Request failed", cause |-> err]
  ELSE ApiResponseError(err, parsed.value)

\* the value throwApiResponseErrFromKyErr rejects with once err.response.json()
\* has settled with parsed
ThrowAfterRead(err, parsed) ==
  IF ~parsed.ok THEN SyntaxError(err.id)
  ELSE IF ~isDataApiErrorResponse(parsed.value) THEN err
  ELSE ApiResponseError(err, parsed.value)

\* the client's beforeError hook: the value ky rejects with once
\* error.response.clone().json().catch(() => undefined) has settled
BeforeErrorResult(error, parsed) ==
  LET data == IF parsed.ok THEN parsed.value ELSE Undefined
  IN  IF isDataApiErrorResponse(data) THEN ApiResponseError(error, data) ELSE error

(***************************************************************************)
(* Template variants: the client (hook) and the service (catch).           *)
(***************************************************************************)
\* src/lib/ky client and the service that calls it bare
VariantPlain == [hook |-> FALSE, catch |-> FALSE]
\* src/api client with beforeError and the service that calls it bare
VariantHook == [hook |-> TRUE, catch |-> FALSE]
\* shared/api client and the service with .catch(throwApiResponseErrFromKyErr)
VariantCatch == [hook |-> FALSE, catch |-> TRUE]
\* the hook client under the catching service
VariantBoth == [hook |-> TRUE, catch |-> TRUE]

Variants == {VariantPlain, VariantHook, VariantCatch, VariantBoth}

(***************************************************************************)
(* Query keys and the cache.                                               *)
(***************************************************************************)
\* a params object as the caller wrote it: its properties in insertion order
OObj(pairs) == [kind |-> "object", str |-> "[object Object]", pairs |-> pairs]

Props(obj) == {obj.pairs[i] : i \in DOMAIN obj.pairs}

\* plausible slip: the key holds the params' JSON text, which lists the
\* properties in insertion order
ListKeyStringified(params) ==
  <<"products", "list",
    [kind |-> "json", str |-> "",
     pairs |-> IF params.kind = "object" THEN params.pairs ELSE <<>>]>>

\* the key holds the params value itself
ListKey(params) == <<"products", "list", params>>

\* plausible slip: the detail keys live under the singular resource name
DetailKeySingular(id) == <<"product", "detail", JStr(id)>>

DetailKey(id) == <<"products", "detail", JStr(id)>>

ParamsFoo == OObj(<< <<"q", JStr("foo")>> >>)

\* the values listProductsOptions is called with: no argument, {}, the
\* filter of a search without q, one filter, and two spellings of an object
\* with two properties
ParamsValues ==
  { Undefined,
    OObj(<<>>),
    OObj(<< <<"q", Undefined>> >>),
    ParamsFoo,
    OObj(<< <<"q", JStr("bar")>> >>),
    OObj(<< <<"q", JStr("foo")>>, <<"page", JStr("2")>> >>),
    OObj(<< <<"page", JStr("2")>>, <<"q", JStr("foo")>> >>) }

ProductIds == {"1", "2"}

\* deep equality of two params values: the same properties with the same
\* values, in any order
DeepEqual(a, b) ==
  IF a.kind = "object" /\ b.kind = "object"
  THEN Props(a) = Props(b)
  ELSE a = b

KeyDeepEqual(k1, k2) ==
  /\ Len(k1) = Len(k2)
  /\ k1[1] = k2[1]
  /\ k1[2] = k2[2]
  /\ DeepEqual(k1[3], k2[3])

\* the cache engine's hash of a key segment: JSON.stringify with the object's
\* properties sorted; undefined in the array becomes null, a property whose
\* value is undefined is dropped
HashPrimitive(v) ==
  IF v.kind = "undefined" THEN [json |-> "null", str |-> ""]
  ELSE [json |-> v.kind, str |-> v.str]

HashSegment(v) ==
  IF v.kind \in {"object", "json"}
  THEN [json |-> v.kind,
        members |-> {<<pr[1], HashPrimitive(pr[2])>> :
                       pr \in {q \in Props(v) : q[2].kind # "undefined"}},
        order |-> IF v.kind = "json" THEN v.pairs ELSE <<>>]
  ELSE HashPrimitive(v)

hashKey(k) == <<k[1], k[2], HashSegment(k[3])>>

\* ky's searchParams option: undefined values are dropped, the rest is
\* serialized in insertion order; no option, no query string
SearchParams(params) ==
  IF params.kind = "object"
  THEN SelectSeq(params.pairs, LAMBDA pr : pr[2].kind # "undefined")
  ELSE <<>>

\* the requests of the three service functions
fetchAllProducts(params) ==
  [method |-> "GET", path |-> <<"products">>, search |-> SearchParams(params), json |-> <<>>]

fetchProductById(id) ==
  [method |-> "GET", path |-> <<"products", id>>, search |-> <<>>, json |-> <<>>]

createProduct(input) ==
  [method |-> "POST", path |-> <<"products">>, search |-> <<>>, json |-> <<input>>]

NoRequest == [method |-> "none", path |-> <<>>, search |-> <<>>, json |-> <<>>]

\* the query descriptors: the key and the request the queryFn will issue
listProductsOptions(params) ==
  [fn |-> "list", arg |-> params,
   queryKey |-> ListKey(params), queryFn |-> fetchAllProducts(params)]

productDetailOptions(id) ==
  [fn |-> "detail", arg |-> JStr(id),
   queryKey |-> DetailKey(id), queryFn |-> fetchProductById(id)]

ProductKeys == {ListKey(Undefined), ListKey(ParamsFoo), DetailKey("1")}
OrdersKey == <<"orders", "list", Undefined>>
Keys == ProductKeys \cup {OrdersKey}

NoEntry == [status |-> "absent", ver |-> 0, isInvalidated |-> FALSE, hasData |-> FALSE]

\* the cache engine's partial (prefix) match of a query key against a filter key
partialMatchKey(queryKey, filterKey) ==
  /\ Len(filterKey) <= Len(queryKey)
  /\ \A i \in 1..Len(filterKey) : queryKey[i] = filterKey[i]

\* queryClient.invalidateQueries({ queryKey: filterKey })
invalidateQueries(store, filterKey) ==
  [k \in DOMAIN store |->
     IF store[k].status # "absent" /\ partialMatchKey(k, filterKey)
     THEN [store[k] EXCEPT !.isInvalidated = TRUE]
     ELSE store[k]]

\* plausible slip: only the list queries are invalidated
onSuccessListOnly(store) == invalidateQueries(store, <<"products", "list">>)

\* plausible slip: invalidateQueries() without a filter
onSuccessAll(store) == invalidateQueries(store, <<>>)

\* useCreateProduct's onSuccess
onSuccess(store) == invalidateQueries(store, <<"products">>)

(***************************************************************************)
(* What the transport can fail with.                                       *)
(***************************************************************************)
\* status and body of the failed responses
HttpFailures ==
  {<<422, BodyInvalidFilter>>, <<409, BodyNameTaken>>, <<422, BodyEmptyMessage>>,
   <<400, BodyNumberMessage>>, <<400, BodyNullMessage>>, <<400, BodyObjectMessage>>,
   <<422, BodyDetail>>, <<400, BodyEmptyObject>>, <<400, BodyArray>>,
   <<400, BodyNull>>, <<400, BodyString>>, <<500, BodyHtml>>, <<502, BodyEmpty>>}

\* failures without a response: fetch's TypeError, ky's TimeoutError
NetworkFailures == {"TypeError", "TimeoutError"}

Faults(c) ==
  {HTTPError(c, f[1], f[2]) : f \in HttpFailures}
    \cup {NetworkError(c, n) : n \in NetworkFailures}

\* the failures of the scenarios of the specification
CoreFaults(c) ==
  {HTTPError(c, 422, BodyInvalidFilter), HTTPError(c, 500, BodyHtml),
   NetworkError(c, "TypeError")}

CreateInputs == {"", "Widget"}

(***************************************************************************)
(* The products page: search params, rendering, context hooks.             *)
(***************************************************************************)
\* a search object: the keys it holds and their values
NoSearch == [key \in {} |-> Undefined]

\* JavaScript truthiness of the values a search param can hold
Truthy(v) ==
  CASE v.kind = "undefined" -> FALSE
    [] v.kind = "null" -> FALSE
    [] v.kind = "string" -> v.str # ""
    [] v.kind = "number" -> v.str # "0"
    [] OTHER -> TRUE

\* { ...a, ...b }: the keys of both, b's value where both have the key
Spread(a, b) ==
  [key \in DOMAIN a \cup DOMAIN b |-> IF key \in DOMAIN b THEN b[key] ELSE a[key]]

\* Route.validateSearch: q: (search.q as string) || undefined
validateSearch(raw) ==
  [key \in {"q"} |->
     IF "q" \in DOMAIN raw /\ Truthy(raw["q"]) THEN raw["q"] ELSE Undefined]

\* the search of the route's match: the parsed location search with the
\* validated keys laid over it
MatchSearch(raw) == Spread(raw, validateSearch(raw))

\* the router writes a search object into the URL and parses it back: keys
\* whose value is undefined are left out, the other values keep their type
DropUndefined(obj) ==
  [key \in {k \in DOMAIN obj : obj[k].kind # "undefined"} |-> obj[key]]

\* what the router parses from the query string of a URL someone opens: it
\* reads each value as JSON where it can, so ?q=5 is the number 5 and ?q= is
\* the empty string
UrlSearches ==
  { Spread(qs, ps) :
      qs \in {NoSearch} \cup {[key \in {"q"} |-> v] :
                                v \in {JStr(""), JStr("foo"), JNum("5"), JNum("0")}},
      ps \in {NoSearch, [key \in {"page"} |-> JNum("2")]} }

\* what the search input can hold
InputValues == {"", "foo", "bar", "5"}

\* useProductFilters().setFilters(newFilters): navigate to the current
\* filters with the new ones laid over them
setFilters(filters, newFilters) ==
  MatchSearch(DropUndefined(Spread(filters, newFilters)))

\* no context hook called yet
NoHookCall ==
  [name |-> "", context |-> Undefined, threw |-> FALSE, message |-> "",
   value |-> Undefined]

\* the names a context is created with: the default and a given one
ContextNames == {"Context", "ProductsContext"}

\* what useContext can hand back: undefined without a Provider, or the
\* Provider's value
ContextValues ==
  {Undefined, JNull, JStr(""), JNum("0"), JStr("light"), OObj(<< <<"q", JStr("foo")>> >>)}

\* plausible slip: if (!context) instead of if (context === undefined)
useContextHookFalsy(name, context) ==
  IF ~Truthy(context)
  THEN [name |-> name, context |-> context, threw |-> TRUE,
        message |-> name \o " must be used within Provider", value |-> Undefined]
  ELSE [name |-> name, context |-> context, threw |-> FALSE,
        message |-> "", value |-> context]

\* the hook of createContextFactory(name), called where useContext gives context
useContextHook(name, context) ==
  IF context = Undefined
  THEN [name |-> name, context |-> context, threw |-> TRUE,
        message |-> name \o " must be used within Provider", value |-> Undefined]
  ELSE [name |-> name, context |-> context, threw |-> FALSE,
        message |-> "", value |-> context]
NotCalled == [arg |-> Nil, result |-> Undefined]

\* nothing rendered yet
NoPage == [text |-> "none", error |-> Nil]

\* the body of ProductsPage: what it returns for the state of its query
ProductsPage(isLoading, error) ==
  IF isLoading THEN [text |-> "Loading", error |-> error]
  ELSE IF error # Nil THEN [text |-> "Failed to load products", error |-> error]
  ELSE [text |-> "list", error |-> error]

(***************************************************************************)
(* State.                                                                  *)
(***************************************************************************)
VARIABLES
  variant,    \* the client and service the application was built from
  calls,      \* the service calls: position, transport failure, outcome
  cache,      \* the query cache, by query key
  mutation,   \* the create mutations, by the call that carries them
  serverVer,  \* number of products the server has stored
  built,      \* the query descriptors the application has built, in order
  search,     \* the router's search object of the products route
  ctx,        \* what the last call of a context hook did
  page,       \* what the products page rendered last
  extracted   \* what getMessageFromApiResponseError returned last

uiVars == <<search, ctx, page, extracted>>

vars == <<variant, calls, cache, mutation, serverVer, built, uiVars>>

Pending == [state |-> "pending", value |-> Nil]
Fulfilled(v) == [state |-> "fulfilled", value |-> v]
Rejected(e) == [state |-> "rejected", value |-> e]

\* sentVer: what the server held when the request left; abandoned: the
\* component that observed the query is gone; cancelled: the cache engine
\* dropped the fetch and ignores what it settles with; delivered: what
\* .json() resolved with; typedErrors: the ApiResponseError objects
\* constructed for the call; sink: who took the settled promise
IdleCall ==
  [pc |-> "idle", op |-> "none", key |-> <<>>, input |-> "", fault |-> Nil,
   outcome |-> Pending, bodyReads |-> 0, cloneReads |-> 0,
   sentVer |-> 0, abandoned |-> FALSE, cancelled |-> FALSE,
   request |-> NoRequest, delivered |-> Nil, typedErrors |-> 0, sink |-> "none",
   attempts |-> 0, retryCount |-> 0, failureCount |-> 0]

\* attempts: the transport requests the call has issued; retryCount: ky's
\* count of retries of the current invocation; failureCount: the cache
\* engine's count of failed invocations

\* retry of ky.create in src/api/apiClient.ts
ApiClientRetry == 0

\* retry of ky.create in src/lib/ky/apiClient.ts
LibKyClientRetry == 0

\* defaultOptions.queries.retry of the QueryClient
QueryRetry == 0

\* defaultOptions.mutations.retry of the QueryClient
MutationRetry == 0

\* plausible slip: the client leaves ky's default retry limit in place
KyRetryLimitDefault(v) == 2

\* the retry limit of the client the variant uses
KyRetryLimit(v) == IF v.hook THEN ApiClientRetry ELSE LibKyClientRetry

\* ky retries GET requests (never POST) that failed on the network or with
\* one of its retriable statuses
KyRetriable(rec, f) ==
  /\ rec.request.method = "GET"
  /\ IsHTTPError(f) => f.status \in {408, 413, 429, 500, 502, 503, 504}

\* ky sends the request again instead of rejecting
KyRetries(rec, f) == KyRetriable(rec, f) /\ rec.retryCount < KyRetryLimit(variant)

\* the retry option the cache engine applies to the call
EngineRetryLimit(rec) == IF rec.op = "create" THEN MutationRetry ELSE QueryRetry

\* the cache engine runs the function again instead of reporting the failure
EngineRetries(rec, out) ==
  out.state = "rejected" /\ ~rec.cancelled /\ rec.failureCount < EngineRetryLimit(rec)

\* the call after the cache engine invoked its function again
Reissued(rec) ==
  [rec EXCEPT !.pc = "transport", !.fault = Nil, !.bodyReads = 0, !.cloneReads = 0,
              !.attempts = @ + 1, !.retryCount = 0, !.failureCount = @ + 1]

\* invalidations: the invalidateQueries calls the mutation's onSuccess made
IdleMutation == [status |-> "idle", result |-> Nil, invalidations |-> 0]

InFlight(c) == calls[c].pc \in {"transport", "beforeError", "classify"}

IsQuery(rec) == rec.op \in {"list", "detail"}

\* invalidateQueries refetches the active queries it matched with
\* cancelRefetch: a fetch in flight for a query that holds data and is still
\* observed is cancelled; one for a query without data, or an abandoned one,
\* runs on
CancelRefetch(cs, store, filterKey) ==
  [d \in DOMAIN cs |->
     IF /\ cs[d].pc \in {"transport", "beforeError", "classify"}
        /\ IsQuery(cs[d])
        /\ ~cs[d].abandoned
        /\ partialMatchKey(cs[d].key, filterKey)
        /\ store[cs[d].key].hasData
     THEN [cs[d] EXCEPT !.cancelled = TRUE]
     ELSE cs[d]]

\* calls take the slots in order
FreeSlot(c) ==
  /\ calls[c].pc = "idle"
  /\ \A d \in Calls : d < c => calls[d].pc # "idle"

OpOfKey(k) == IF k[2] = "list" THEN "list" ELSE "detail"

\* the request of the queryFn behind key k
RequestOfKey(k) ==
  IF k[2] = "list" THEN listProductsOptions(k[3]).queryFn
  ELSE productDetailOptions(k[3].str).queryFn

FreshEntry == [status |-> "success", ver |-> 0, isInvalidated |-> FALSE, hasData |-> TRUE]
InvalidatedEntry == [status |-> "success", ver |-> 0, isInvalidated |-> TRUE, hasData |-> TRUE]

\* the cache before the calls of this behaviour: nothing read yet, or every
\* products query read once; the orders query of another feature read once
ColdProducts == [k \in ProductKeys |-> NoEntry]
WarmProducts == [k \in ProductKeys |-> FreshEntry]

Init ==
  /\ variant \in Variants
  /\ calls = [c \in Calls |-> IdleCall]
  /\ \E p \in {ColdProducts, WarmProducts}, o \in {FreshEntry, InvalidatedEntry} :
       cache = [k \in Keys |-> IF k = OrdersKey THEN o ELSE p[k]]
  /\ mutation = [c \in Calls |-> IdleMutation]
  /\ serverVer = 0
  /\ built = <<>>
  /\ search = MatchSearch(NoSearch)
  /\ ctx = NoHookCall
  /\ page = NoPage
  /\ extracted = NotCalled

(***************************************************************************)
(* Settlement of a service call's promise.                                 *)
(***************************************************************************)
\* the cache engine stores what the descriptor's queryFn settled with;
\* the mutation runs onSuccess when mutationFn resolved
\* plausible slip: the invalidation is registered as onSettled
RunsOnSuccessAlways(out) == TRUE

\* useMutation calls onSuccess when mutationFn resolved, never when it rejected
RunsOnSuccess(out) == out.state = "fulfilled"

\* plausible slip: a cancelled fetch still writes what it settles with
CacheOnSettleCancelBlind(rec, out) ==
  IF rec.op = "create"
  THEN IF RunsOnSuccess(out) THEN onSuccess(cache) ELSE cache
  ELSE [cache EXCEPT ![rec.key] =
          IF out.state = "fulfilled"
          THEN [status |-> "success", ver |-> out.value.ver,
                isInvalidated |-> FALSE, hasData |-> TRUE]
          ELSE [@ EXCEPT !.status = "error"]]

CacheOnSettle(rec, out) ==
  IF rec.op = "create"
  THEN IF RunsOnSuccess(out) THEN onSuccess(cache) ELSE cache
  ELSE IF rec.cancelled THEN cache
  ELSE [cache EXCEPT ![rec.key] =
          IF out.state = "fulfilled"
          THEN [status |-> "success", ver |-> out.value.ver,
                isInvalidated |-> FALSE, hasData |-> TRUE]
          ELSE [@ EXCEPT !.status = "error"]]

\* the other calls after c settled: the refetch of onSuccess's invalidation
CallsOnSettle(cs, rec, out) ==
  IF rec.op = "create" /\ RunsOnSuccess(out)
  THEN CancelRefetch(cs, cache, <<"products">>)
  ELSE cs

\* plausible slip: onSuccess returns the invalidation, so the mutation stays
\* pending while the queries it invalidated are refetched
MutationOnSettleAwaiting(c, rec, out) ==
  IF rec.op = "create"
  THEN [mutation EXCEPT ![c] =
          [status |-> IF out.state = "rejected" THEN "error"
                      ELSE IF \E k \in ProductKeys : cache[k].status # "absent"
                           THEN "pending" ELSE "success",
           result |-> out.value,
           invalidations |-> IF RunsOnSuccess(out) THEN 1 ELSE 0]]
  ELSE mutation

MutationOnSettle(c, rec, out) ==
  IF rec.op = "create"
  THEN [mutation EXCEPT ![c] =
          [status |-> IF out.state = "fulfilled" THEN "success" ELSE "error",
           result |-> out.value,
           invalidations |-> IF RunsOnSuccess(out) THEN 1 ELSE 0]]
  ELSE mutation

\* who consumes the promise of the service call: the mutation, the query's
\* fetch, or the handlers of a fetch the engine has cancelled
SinkOf(rec) ==
  IF rec.op = "create" THEN "mutation"
  ELSE IF rec.cancelled THEN "discarded"
  ELSE "cache"

Finish(c, rec, out) ==
  IF EngineRetries(rec, out)
  THEN /\ calls' = [calls EXCEPT ![c] = Reissued(rec)]
       /\ UNCHANGED <<cache, mutation>>
  ELSE /\ calls' = CallsOnSettle([calls EXCEPT ![c] =
                                    [rec EXCEPT !.pc = "done", !.outcome = out,
                                                !.sink = SinkOf(rec)]],
                                 rec, out)
       /\ cache' = CacheOnSettle(rec, out)
       /\ mutation' = MutationOnSettle(c, rec, out)

\* the service function receives ky's rejection: .catch(throwApiResponseErrFromKyErr)
\* where the service has it, the bare rejection otherwise
ServiceCatch(c, rec, thrown) ==
  IF variant.catch /\ ~ThrowsBeforeRead(thrown)
  THEN /\ calls' = [calls EXCEPT ![c] = [rec EXCEPT !.pc = "classify"]]
       /\ UNCHANGED <<cache, mutation>>
  ELSE Finish(c, rec, Rejected(thrown))

(***************************************************************************)
(* Actions.                                                                *)
(***************************************************************************)
\* the cache engine invokes the queryFn of listProductsOptions / productDetailOptions
StartQuery(c, k) ==
  /\ FreeSlot(c)
  /\ \A d \in Calls : (InFlight(d) /\ ~calls[d].cancelled) => calls[d].key # k
  /\ calls' = [calls EXCEPT ![c] =
                 [IdleCall EXCEPT !.pc = "transport", !.op = OpOfKey(k), !.key = k,
                                  !.sentVer = serverVer,
                                  !.request = RequestOfKey(k),
                                  !.attempts = 1]]
  /\ cache' = [cache EXCEPT ![k] =
                 IF @.status = "absent" THEN [@ EXCEPT !.status = "pending"] ELSE @]
  /\ UNCHANGED <<variant, mutation, serverVer, built, uiVars>>

\* useCreateProduct().mutate(input): mutationFn calls createProduct(input)
StartCreate(c, input) ==
  /\ FreeSlot(c)
  /\ calls' = [calls EXCEPT ![c] =
                 [IdleCall EXCEPT !.pc = "transport", !.op = "create", !.input = input,
                                  !.sentVer = serverVer,
                                  !.request = createProduct(input),
                                  !.attempts = 1]]
  /\ mutation' = [mutation EXCEPT ![c] = [IdleMutation EXCEPT !.status = "pending"]]
  /\ UNCHANGED <<variant, cache, serverVer, built, uiVars>>

\* what a response can carry: a create stores one more product; a read was
\* served at some moment between the request and the response
ResponseVers(rec) ==
  IF rec.op = "create" THEN {serverVer + 1} ELSE rec.sentVer..serverVer

\* plausible slip: the service unwraps an envelope around the data
ServiceReturnUnwrapped(data) == [cls |-> "data", op |-> "unwrapped", ver |-> data.ver]

\* what the service function resolves with: the promise of .json() itself
ServiceReturn(data) == data

\* the request succeeds and .json() delivers the data
TransportOk(c) ==
  /\ calls[c].pc = "transport"
  /\ \E ver \in ResponseVers(calls[c]) :
       LET data == [cls |-> "data", op |-> calls[c].op, ver |-> ver]
       IN  /\ serverVer' = IF calls[c].op = "create" THEN ver ELSE serverVer
           /\ Finish(c, [calls[c] EXCEPT !.delivered = data],
                     Fulfilled(ServiceReturn(data)))
  /\ UNCHANGED <<variant, built, uiVars>>

\* the component that observes the query unmounts or changes its filter: the
\* queryFn takes no AbortSignal, so the cache engine lets the fetch run on
Abandon(c) ==
  /\ InFlight(c)
  /\ IsQuery(calls[c])
  /\ ~calls[c].abandoned
  /\ ~calls[c].cancelled
  /\ calls' = [calls EXCEPT ![c].abandoned = TRUE]
  /\ UNCHANGED <<variant, cache, mutation, serverVer, built, uiVars>>

\* the request fails with f: ky sends it again while its retry limit allows,
\* then runs beforeError for an HTTPError and rejects
TransportFail(c, f) ==
  /\ calls[c].pc = "transport"
  /\ LET rec == [calls[c] EXCEPT !.fault = f]
     IN  IF KyRetries(calls[c], f)
         THEN /\ calls' = [calls EXCEPT ![c].attempts = @ + 1, ![c].retryCount = @ + 1]
              /\ UNCHANGED <<cache, mutation>>
         ELSE IF IsHTTPError(f) /\ variant.hook
         THEN /\ calls' = [calls EXCEPT ![c] = [rec EXCEPT !.pc = "beforeError"]]
              /\ UNCHANGED <<cache, mutation>>
         ELSE ServiceCatch(c, rec, f)
  /\ UNCHANGED <<variant, serverVer, built, uiVars>>

\* plausible slip: the hook reads error.response itself
HookReadsOriginal == FALSE

\* the hook reads error.response.clone(), not the response
HookReadsClone == TRUE

\* plausible slip: the failure is kept in a module-level variable that the
\* latest failure overwrites
ClassifierErrShared(c) ==
  LET failed == {d \in Calls : IsHTTPError(calls[d].fault)}
  IN  calls[CHOOSE d \in failed : \A e \in failed : e <= d].fault

\* the failure a classification works on: err is the classifier's own parameter
ClassifierErr(c) == calls[c].fault

\* reading a body: a stream already consumed cannot be read again
ReadBody(rec, err) ==
  IF rec.bodyReads > 0 THEN [ok |-> FALSE, value |-> Undefined]
  ELSE JsonParse(err.body)

Constructed(thrown) == IF IsApiResponseError(thrown) THEN 1 ELSE 0

\* the hook's read of the cloned response settles
BeforeError(c) ==
  /\ calls[c].pc = "beforeError"
  /\ LET error == calls[c].fault
         thrown == BeforeErrorResult(error, JsonParse(error.body))
         rec == [calls[c] EXCEPT
                   !.cloneReads = IF HookReadsClone THEN @ + 1 ELSE @,
                   !.bodyReads = IF HookReadsClone THEN @ ELSE @ + 1,
                   !.typedErrors = @ + Constructed(thrown)]
     IN  ServiceCatch(c, rec, thrown)
  /\ UNCHANGED <<variant, serverVer, built, uiVars>>

\* the classifier's read of err.response settles
Classify(c) ==
  /\ calls[c].pc = "classify"
  /\ LET err == ClassifierErr(c)
         thrown == ThrowAfterRead(err, ReadBody(calls[c], err))
         rec == [calls[c] EXCEPT !.bodyReads = @ + 1,
                                 !.typedErrors = @ + Constructed(thrown)]
     IN  Finish(c, rec, Rejected(thrown))
  /\ UNCHANGED <<variant, serverVer, built, uiVars>>

Next ==
  \/ \E c \in Calls, k \in ProductKeys : StartQuery(c, k)
  \/ \E c \in Calls : StartCreate(c, "Widget")
  \/ \E c \in Calls : TransportOk(c)
  \/ \E c \in Calls : Abandon(c)
  \/ \E c \in Calls : \E f \in CoreFaults(c) : TransportFail(c, f)
  \/ \E c \in Calls : BeforeError(c)
  \/ \E c \in Calls : Classify(c)

Spec == Init /\ [][Next]_vars

\* one call at a time, every failure the transport can produce
\* the values a caller may hand to getMessageFromApiResponseError: the error
\* of its query or mutation (null when there is none), a plain Error, or
\* nothing at all
ErrorInputs(c) ==
  {PlainError("boom"), Undefined, JNull}
    \cup (IF calls[c].outcome.state = "rejected" THEN {calls[c].outcome.value} ELSE {})

\* the UI asks for the message of an error
ExtractMessage(c, err) ==
  /\ err \in ErrorInputs(c)
  /\ extracted' = [arg |-> err, result |-> getMessageFromApiResponseError(err)]
  /\ UNCHANGED <<variant, calls, cache, mutation, serverVer, built, search, ctx, page>>

\* useQuery's view of the list query behind call c: loading while the first
\* fetch runs, the error the fetch rejected with
IsLoading(c) == InFlight(c) /\ ~cache[calls[c].key].hasData

QueryError(c) ==
  IF calls[c].pc = "done" /\ ~calls[c].cancelled /\ calls[c].outcome.state = "rejected"
  THEN calls[c].outcome.value
  ELSE Nil

\* the products page renders
RenderPage(c) ==
  /\ calls[c].op = "list"
  /\ page' = ProductsPage(IsLoading(c), QueryError(c))
  /\ UNCHANGED <<variant, calls, cache, mutation, serverVer, built, search, ctx, extracted>>

NextOne ==
  \/ \E k \in ProductKeys : StartQuery(1, k)
  \/ \E i \in CreateInputs : StartCreate(1, i)
  \/ TransportOk(1)
  \/ Abandon(1)
  \/ \E f \in Faults(1) : TransportFail(1, f)
  \/ BeforeError(1)
  \/ Classify(1)
  \/ \E err \in ErrorInputs(1) : ExtractMessage(1, err)
  \/ RenderPage(1)

SpecOne == Init /\ [][NextOne]_vars

\* someone opens the products page at a URL
LoadUrl(raw) ==
  /\ search' = MatchSearch(raw)
  /\ UNCHANGED <<variant, calls, cache, mutation, serverVer, built, ctx, page, extracted>>

\* the search input changes: setFilters({ q: e.target.value || undefined })
OnChange(value) ==
  /\ search' = setFilters(search, [key \in {"q"} |->
                                     IF value = "" THEN Undefined ELSE JStr(value)])
  /\ UNCHANGED <<variant, calls, cache, mutation, serverVer, built, ctx, page, extracted>>

\* a component calls the hook of createContextFactory(name)
UseContextHook(name, context) ==
  /\ ctx' = useContextHook(name, context)
  /\ UNCHANGED <<variant, calls, cache, mutation, serverVer, built, search, page, extracted>>

\* the page's search params and the context hooks
NextUi ==
  \/ \E raw \in UrlSearches : LoadUrl(raw)
  \/ \E value \in InputValues : OnChange(value)
  \/ \E name \in ContextNames, context \in ContextValues : UseContextHook(name, context)

SpecUi == Init /\ [][NextUi]_vars

\* plausible slip: queryFn is the promise itself, so the fetch starts at the build
BuildListEager(params) ==
  /\ Len(built) < MaxBuilt
  /\ built' = Append(built, listProductsOptions(params))
  /\ IF ListKey(params) \in Keys /\ calls[1].pc = "idle"
     THEN calls' = [calls EXCEPT ![1] =
                     [IdleCall EXCEPT !.pc = "transport", !.op = "list",
                                      !.key = ListKey(params),
                                      !.sentVer = serverVer,
                                      !.request = fetchAllProducts(params),
                                      !.attempts = 1]]
     ELSE calls' = calls
  /\ UNCHANGED <<variant, cache, mutation, serverVer, uiVars>>

\* the application builds a descriptor: listProductsOptions(params)
BuildList(params) ==
  /\ Len(built) < MaxBuilt
  /\ built' = Append(built, listProductsOptions(params))
  /\ UNCHANGED <<variant, calls, cache, mutation, serverVer, uiVars>>

\* the application builds a descriptor: productDetailOptions(id)
BuildDetail(id) ==
  /\ Len(built) < MaxBuilt
  /\ built' = Append(built, productDetailOptions(id))
  /\ UNCHANGED <<variant, calls, cache, mutation, serverVer, uiVars>>

\* the cache engine invokes the queryFn of a descriptor it was handed
InvokeQueryFn(c, i) ==
  /\ i \in DOMAIN built
  /\ built[i].queryKey \in ProductKeys
  /\ StartQuery(c, built[i].queryKey)

\* descriptors built and fetched through one call slot
NextKeys ==
  \/ \E params \in ParamsValues : BuildList(params)
  \/ \E id \in ProductIds : BuildDetail(id)
  \/ \E i \in 1..MaxBuilt : InvokeQueryFn(1, i)
  \/ TransportOk(1)
  \/ Abandon(1)
  \/ \E f \in CoreFaults(1) : TransportFail(1, f)
  \/ BeforeError(1)
  \/ Classify(1)

SpecKeys == Init /\ [][NextKeys]_vars

(***************************************************************************)
(* Properties.                                                             *)
(***************************************************************************)
Done(c) == calls[c].pc = "done"

\* the call's transport failed with an HTTPError
HttpFailed(c) == IsHTTPError(calls[c].fault)

\* the parsed body of the failed response
ParsedBody(c) == JsonParse(calls[c].fault.body)

\* the build classifies failures: in the client's hook or in the service
Classifies == variant.hook \/ variant.catch

\* a plain object with a string under message
HasStringMessage(data) ==
  /\ data.kind = "object"
  /\ "message" \in DOMAIN data.fields
  /\ data.fields.message.kind = "string"

\* C1: a transport failure whose body parses to a plain object with a
\* non-empty string message reaches the caller, once classified, as an
\* ApiResponseError whose message is that string and whose data is the
\* parsed payload.
C1_RecognizedGivesTypedError ==
  \A c \in Calls :
    (Done(c) /\ Classifies /\ HttpFailed(c) /\ ParsedBody(c).ok
       /\ HasStringMessage(ParsedBody(c).value)
       /\ ParsedBody(c).value.fields.message.str # "")
    => /\ calls[c].outcome.state = "rejected"
       /\ IsApiResponseError(calls[c].outcome.value)
       /\ calls[c].outcome.value.message = ParsedBody(c).value.fields.message.str
       /\ calls[c].outcome.value.data = ParsedBody(c).value

\* list() failed with 422 {message:"invalid filter"} and was classified
C1_Witness ==
  \E c \in Calls :
    /\ Done(c) /\ Classifies /\ calls[c].op = "list"
    /\ calls[c].fault = HTTPError(c, 422, BodyInvalidFilter)
    /\ IsApiResponseError(calls[c].outcome.value)
    /\ calls[c].outcome.value.message = "invalid filter"

\* C2: a transport failure whose parsed body lacks the message key or is not
\* a plain object is re-thrown as the very same failure value.
C2_UnrecognizedRethrown ==
  \A c \in Calls :
    (Done(c) /\ HttpFailed(c) /\ ParsedBody(c).ok
       /\ ~(ParsedBody(c).value.kind = "object"
            /\ "message" \in DOMAIN ParsedBody(c).value.fields))
    => calls[c].outcome = Rejected(calls[c].fault)

\* an array body went through the service's classifier and came back unchanged
C2_Witness ==
  \E c \in Calls :
    /\ Done(c) /\ variant.catch /\ calls[c].bodyReads = 1
    /\ calls[c].fault = HTTPError(c, 400, BodyArray)
    /\ calls[c].outcome.value = calls[c].fault

\* C3: a failure that is not an HTTPError is re-thrown unchanged and no
\* response body is read for it.
C3_NonTransportRethrown ==
  \A c \in Calls :
    (calls[c].fault # Nil /\ ~HttpFailed(c))
    => /\ Done(c)
       /\ calls[c].outcome = Rejected(calls[c].fault)
       /\ calls[c].bodyReads = 0
       /\ calls[c].cloneReads = 0

\* a network TypeError passed through throwApiResponseErrFromKyErr
C3_Witness ==
  \E c \in Calls :
    /\ Done(c) /\ variant.catch
    /\ calls[c].fault = NetworkError(c, "TypeError")
    /\ calls[c].outcome.value = calls[c].fault

\* C4: when reading the failed response's body as JSON fails, the original
\* transport failure is re-thrown unchanged.
C4_UnreadableBodyRethrown ==
  \A c \in Calls :
    (Done(c) /\ HttpFailed(c) /\ ~ParsedBody(c).ok)
    => calls[c].outcome = Rejected(calls[c].fault)

\* C5: a parsed body is recognized (classified into an ApiResponseError) if
\* and only if it is a plain object with a string under message.
C5_RecognizedIffStringMessage ==
  \A c \in Calls :
    (Done(c) /\ Classifies /\ HttpFailed(c) /\ ParsedBody(c).ok)
    => (IsApiResponseError(calls[c].outcome.value)
          <=> HasStringMessage(ParsedBody(c).value))

\* C6: a service operation whose transport call failed rejects with an
\* ApiResponseError or with the unmodified original failure, never resolves
\* and never rejects with a third value.
C6_TypedOrOriginal ==
  \A c \in Calls :
    (Done(c) /\ calls[c].fault # Nil)
    => /\ calls[c].outcome.state = "rejected"
       /\ \/ IsApiResponseError(calls[c].outcome.value)
          \/ calls[c].outcome.value = calls[c].fault

\* C7: in every service variant a failure with a recognized body reaches the
\* caller as an ApiResponseError, never as the raw HTTPError.
C7_EveryVariantClassifies ==
  \A c \in Calls :
    (Done(c) /\ HttpFailed(c) /\ ParsedBody(c).ok
       /\ HasStringMessage(ParsedBody(c).value))
    => IsApiResponseError(calls[c].outcome.value)

\* mutation c settles in this step
SettlesAs(c, status) == mutation[c].status = "pending" /\ mutation'[c].status = status

\* C8: when a create mutation settles with success, every entry the cache
\* holds under a key whose first segment is "products" is marked stale.
C8_ProductsInvalidated ==
  [][\A c \in Calls :
       SettlesAs(c, "success")
       => \A k \in Keys :
            (k[1] = "products" /\ cache[k].status # "absent")
            => cache'[k].isInvalidated]_vars

\* a create succeeded over a cache that held both list queries and the detail query
C8_Witness ==
  /\ \E c \in Calls : mutation[c].status = "success"
  /\ \A k \in ProductKeys : cache[k].status = "success" /\ cache[k].isInvalidated

\* C9: when a create mutation settles with success, every entry under
\* another resource keeps its data and its staleness flag.
C9_OtherResourcesUntouched ==
  [][\A c \in Calls :
       SettlesAs(c, "success")
       => \A k \in Keys : k[1] # "products" => cache'[k] = cache[k]]_vars

\* a create succeeded and the fresh orders entry is still fresh
C9_Witness ==
  /\ \E c \in Calls : mutation[c].status = "success"
  /\ cache[OrdersKey] = FreshEntry
  /\ \E k \in ProductKeys : cache[k].isInvalidated

\* C10: when a create mutation settles with failure, no entry's staleness
\* changes and the mutation's result is the ApiResponseError or the original
\* failure.
C10_FailureResult ==
  [][\A c \in Calls :
       SettlesAs(c, "error")
       => /\ \A k \in Keys : cache'[k].isInvalidated = cache[k].isInvalidated
          /\ \/ IsApiResponseError(mutation'[c].result)
             \/ mutation'[c].result = calls'[c].fault]_vars

\* the entry is served from the cache without a refetch
ServedFresh(k) == cache[k].status = "success" /\ ~cache[k].isInvalidated

\* C11: once a create has settled with success, no entry under "products"
\* that is served as fresh holds data read before that create's write.
C11_NoStaleReadSurvives ==
  \A c \in Calls :
    mutation[c].status = "success"
    => \A k \in ProductKeys :
         ServedFresh(k) => cache[k].ver >= calls[c].outcome.value.ver

\* both descriptors come from the same factory
SameFactory(i, j) == built[i].fn = built[j].fn

\* C12: two descriptors built by the same factory from deep-equal params
\* have deep-equal keys, which the cache engine hashes to the same entry,
\* whatever the insertion order of the params' properties.
C12_KeyConstructionIdempotent ==
  \A i, j \in DOMAIN built :
    (SameFactory(i, j) /\ DeepEqual(built[i].arg, built[j].arg))
    => /\ KeyDeepEqual(built[i].queryKey, built[j].queryKey)
       /\ hashKey(built[i].queryKey) = hashKey(built[j].queryKey)

\* {q:"foo", page:"2"} and {page:"2", q:"foo"} were both turned into descriptors
C12_Witness ==
  \E i, j \in DOMAIN built :
    /\ built[i].fn = "list" /\ built[j].fn = "list"
    /\ built[i].arg.kind = "object" /\ built[j].arg.kind = "object"
    /\ built[i].arg.pairs # built[j].arg.pairs
    /\ Len(built[i].arg.pairs) = 2
    /\ DeepEqual(built[i].arg, built[j].arg)
    /\ hashKey(built[i].queryKey) = hashKey(built[j].queryKey)

\* C13: two descriptors of listProductsOptions whose queryFn issues the same
\* transport request have structurally equal keys (the cache engine's hash
\* of the two keys is the same).
C13_SameRequestSameKey ==
  \A i, j \in DOMAIN built :
    (built[i].fn = "list" /\ built[j].fn = "list"
       /\ built[i].queryFn = built[j].queryFn)
    => hashKey(built[i].queryKey) = hashKey(built[j].queryKey)

\* the call slot c leaves idle in this step: a request goes to the transport
Issues(c) == calls[c].pc = "idle" /\ calls'[c].pc = "transport"

\* C14: building a descriptor issues no request and changes no cache entry;
\* a request is issued only by a step that invokes a queryFn (or mutationFn),
\* and that step issues exactly one and builds nothing.
C14_BuildHasNoSideEffects ==
  [][/\ built' # built
        => /\ calls' = calls
           /\ cache' = cache
           /\ mutation' = mutation
           /\ serverVer' = serverVer
     /\ (\E c \in Calls : calls'[c].request # calls[c].request)
        => /\ built' = built
           /\ Cardinality({c \in Calls : Issues(c)}) = 1
           /\ \A c \in Calls :
                calls'[c].request # calls[c].request => Issues(c)]_vars

\* a descriptor was built first and its queryFn invoked afterwards
C14_Witness ==
  /\ Len(built) = MaxBuilt
  /\ calls[1].pc # "idle"
  /\ \E i \in DOMAIN built : built[i].queryFn = calls[1].request

MutationSettled(m) == m.status \in {"success", "error"}

ReadsBody(c) ==
  \/ calls'[c].bodyReads # calls[c].bodyReads
  \/ calls'[c].cloneReads # calls[c].cloneReads

\* C16: along a failure's path the response's body is read at most once and
\* its clone at most once, also under the hook client combined with the
\* catching service; the step that reads leaves the failure, the server, the
\* other calls and mutations and every other cache entry as they were.
C16_BodyConsumedOnce ==
  [][\A c \in Calls :
       ReadsBody(c)
       => /\ calls'[c].bodyReads <= 1
          /\ calls'[c].cloneReads <= 1
          /\ calls'[c].fault = calls[c].fault
          /\ serverVer' = serverVer
          /\ built' = built
          /\ \A d \in Calls \ {c} : calls'[d] = calls[d] /\ mutation'[d] = mutation[d]
          /\ \A k \in Keys : k # calls[c].key => cache'[k] = cache[k]]_vars

\* hook client under the catching service: the hook read the clone, found
\* nothing recognized, and the classifier read the response itself
C16_Witness ==
  \E c \in Calls :
    /\ Done(c) /\ variant = VariantBoth
    /\ calls[c].cloneReads = 1 /\ calls[c].bodyReads = 1

\* what a service call rejects with when its transport call failed with f,
\* taken alone
ServiceResult(f) ==
  LET afterHook == IF IsHTTPError(f) /\ variant.hook
                   THEN BeforeErrorResult(f, JsonParse(f.body))
                   ELSE f
  IN  IF variant.catch /\ ~ThrowsBeforeRead(afterHook)
      THEN ThrowAfterRead(afterHook, JsonParse(afterHook.body))
      ELSE afterHook

OwnOutcome(c) ==
  IF calls[c].fault = Nil
  THEN Fulfilled(calls[c].delivered)
  ELSE Rejected(ServiceResult(calls[c].fault))

\* C17: whatever else is in flight, a finished service call has the outcome
\* that its own transport result gives when the call runs alone.
C17_CallsIndependent ==
  \A c \in Calls : Done(c) => calls[c].outcome = OwnOutcome(c)

\* the second call failed and finished while the first, failed with another
\* body, was still waiting for its body read
C17_Witness ==
  /\ calls[1].pc = "classify"
  /\ calls[1].fault = HTTPError(1, 422, BodyInvalidFilter)
  /\ Done(2)
  /\ calls[2].fault = HTTPError(2, 500, BodyHtml)
  /\ calls[2].outcome.state = "rejected"

\* the service call c settles in this step
Settles(c) == calls[c].pc # "done" /\ calls'[c].pc = "done"

C19_SuccessReturnsTransportData ==
  \A c \in Calls :
    (Done(c) /\ calls[c].fault = Nil)
    => /\ calls[c].delivered # Nil
       /\ calls[c].outcome = Fulfilled(calls[c].delivered)
       /\ calls[c].op = "list"
          => /\ calls[c].request.method = "GET"
             /\ calls[c].request.path = <<"products">>
             /\ calls[c].request.json = <<>>
             /\ calls[c].key = ListKey(ParamsFoo)
                => calls[c].request.search = << <<"q", JStr("foo")>> >>
             /\ calls[c].key = ListKey(Undefined)
                => calls[c].request.search = <<>>

\* list({q:"foo"}) resolved with what the transport delivered
C19_Witness ==
  \E c \in Calls :
    /\ Done(c) /\ calls[c].key = ListKey(ParamsFoo)
    /\ calls[c].outcome.state = "fulfilled"
    /\ calls[c].outcome.value = calls[c].delivered
    /\ calls[c].request.search = << <<"q", JStr("foo")>> >>

\* the typed errors of the calls: at most one per failure, only for a body
\* the classifier recognized, holding the failure that was classified
TypedErrorsWellFormed ==
  \A c \in Calls :
    /\ calls[c].typedErrors <= 1
    /\ calls[c].typedErrors = 1
       => /\ HttpFailed(c) /\ ParsedBody(c).ok
          /\ isDataApiErrorResponse(ParsedBody(c).value)
    /\ (Done(c) /\ Classifies /\ HttpFailed(c) /\ ParsedBody(c).ok
          /\ isDataApiErrorResponse(ParsedBody(c).value))
       => /\ calls[c].typedErrors = 1
          /\ IsApiResponseError(calls[c].outcome.value)
    /\ (Done(c) /\ IsApiResponseError(calls[c].outcome.value))
       => /\ calls[c].typedErrors = 1
          /\ calls[c].outcome.value.err = calls[c].fault
          /\ calls[c].outcome.value.data = ParsedBody(c).value

\* C20: an ApiResponseError is constructed once per failure whose body the
\* classifier recognized, at the classification and nowhere else; its err is
\* the failure that was classified; once a call has rejected with it, no
\* step changes it, in the call or in the mutation that took it as result.
C20_TypedErrorOnceImmutable ==
  [][/\ TypedErrorsWellFormed'
     /\ \A c \in Calls :
          /\ Done(c) => calls'[c].outcome = calls[c].outcome
          /\ MutationSettled(mutation[c]) => mutation'[c].result = mutation[c].result]_vars

\* hook client under the catching service: the hook constructed the error and
\* the service's classifier passed it on without a second read
C20_Witness ==
  /\ variant = VariantBoth
  /\ Done(1) /\ calls[1].op = "create"
  /\ calls[1].typedErrors = 1
  /\ calls[1].cloneReads = 1 /\ calls[1].bodyReads = 0
  /\ IsApiResponseError(mutation[1].result)
  /\ mutation[1].result.err = calls[1].fault

\* C21: getMessageFromApiResponseError returns the message of the payload
\* when it is given an ApiResponseError and undefined when it is given
\* anything else: a raw HTTPError, another Error, null or undefined.
C21_MessageOnlyFromTypedError ==
  extracted # NotCalled
  => IF "cls" \in DOMAIN extracted.arg /\ extracted.arg.cls = "ApiResponseError"
     THEN extracted.result = extracted.arg.data.fields.message
     ELSE extracted.result = Undefined

\* the message was taken from the ApiResponseError a failed list() rejected with
C21_Witness ==
  /\ Done(1) /\ calls[1].op = "list"
  /\ extracted.arg = calls[1].outcome.value
  /\ extracted.arg.cls = "ApiResponseError"
  /\ extracted.result = JStr("invalid filter")

\* C22: when the products list query has failed, the page shows the message
\* of the ApiResponseError if the failure is one, and the generic failure
\* text otherwise.
C22_PageShowsTypedMessage ==
  (page.text # "none" /\ page.error # Nil)
  => page.text = IF IsApiResponseError(page.error)
                 THEN page.error.message
                 ELSE "Failed to load products"

\* C23: the hook of createContextFactory(name) throws an Error with the
\* message "<name> must be used within Provider" when the context value is
\* undefined, and otherwise returns the provided value as it is; it never
\* returns undefined.
C23_ContextHookThrowsOrReturns ==
  ctx # NoHookCall
  => IF ctx.context.kind = "undefined"
     THEN /\ ctx.threw
          /\ ctx.message = ctx.name \o " must be used within Provider"
     ELSE /\ ~ctx.threw
          /\ ctx.value = ctx.context
          /\ ctx.value.kind # "undefined"

\* the hook of the default name was called without a Provider and threw
C23_Witness ==
  /\ ctx.threw
  /\ ctx.name = "Context"
  /\ ctx.message = "Context must be used within Provider"

\* C30: after any sequence of URL loads and setFilters calls of the search
\* input, the q of the page's filters is undefined or a non-empty string.
C30_FilterQueryNeverEmpty ==
  \/ search["q"].kind = "undefined"
  \/ search["q"].kind = "string" /\ search["q"].str # ""

\* what the client's hook throws for the failure of call c
HookThrows(c) == BeforeErrorResult(calls[c].fault, ParsedBody(c))

\* C24: under the hook client combined with the catching service, a failure
\* the hook turned into an ApiResponseError reaches the caller as that same
\* ApiResponseError: the service's classifier re-throws it without reading a
\* body and without constructing a second error.
C24_ClassifierKeepsTypedError ==
  \A c \in Calls :
    (Done(c) /\ variant = VariantBoth /\ HttpFailed(c)
       /\ IsApiResponseError(HookThrows(c)))
    => /\ calls[c].outcome = Rejected(HookThrows(c))
       /\ calls[c].bodyReads = 0
       /\ calls[c].typedErrors = 1

\* list() failed with 409 {message:"name taken", code:7}: the hook's error
\* passed through the service's classifier
C24_Witness ==
  /\ variant = VariantBoth
  /\ Done(1) /\ calls[1].op = "list"
  /\ calls[1].fault = HTTPError(1, 409, BodyNameTaken)
  /\ calls[1].outcome.value.message = "name taken"
  /\ calls[1].bodyReads = 0

\* C25: for every HTTPError and every body, the client's hook and the
\* service's throwApiResponseErrFromKyErr deliver the same value to the
\* caller: a build with one of them rejects with what the other would give.
C25_HookAndCatchAgree ==
  \A c \in Calls :
    (Done(c) /\ HttpFailed(c))
    => /\ variant = VariantHook
          => calls[c].outcome.value = ThrowAfterRead(calls[c].fault, ParsedBody(c))
       /\ variant = VariantCatch
          => calls[c].outcome.value = HookThrows(c)

\* C26: for every ApiResponseError a call rejects with, the error's message,
\* the message of its data and what getMessageFromApiResponseError returns
\* for it are the same string.
C26_MessagesAgree ==
  /\ \A c \in Calls :
       (Done(c) /\ IsApiResponseError(calls[c].outcome.value))
       => /\ calls[c].outcome.value.data.fields.message
               = JStr(calls[c].outcome.value.message)
          /\ getMessageFromApiResponseError(calls[c].outcome.value)
               = JStr(calls[c].outcome.value.message)
  /\ IsApiResponseError(extracted.arg)
     => extracted.result = JStr(extracted.arg.message)

\* the cache holding a fresh entry under key and a fresh orders entry
StoreWith(key) == [k \in {key, OrdersKey} |-> FreshEntry]

\* C27: every key listProductsOptions or productDetailOptions builds has
\* "products" as its first segment, and what useCreateProduct's onSuccess
\* invalidates is the one-segment prefix ["products"]: it marks the entry
\* under every such key stale and leaves an entry of another resource alone.
C27_InvalidationCoversFactoryKeys ==
  \A i \in DOMAIN built :
    LET key == built[i].queryKey
    IN  /\ key[1] = "products"
        /\ partialMatchKey(key, <<"products">>)
        /\ onSuccess(StoreWith(key))[key].isInvalidated
        /\ onSuccess(StoreWith(key))[OrdersKey] = FreshEntry
        /\ onSuccess(StoreWith(key)) = invalidateQueries(StoreWith(key), <<key[1]>>)

\* a list descriptor with a filter and a detail descriptor were built
C27_Witness ==
  /\ Len(built) = 2
  /\ built[1].queryKey = ListKey(ParamsFoo)
  /\ built[2].queryKey = DetailKey("2")

\* C28: a create mutation's status follows its own create call alone: it is
\* success, with the call's value, from the moment the call resolved, it is
\* an error only when that call rejected, and it is pending only while that
\* call is unsettled; no refetch of an invalidated query changes it.
C28_MutationIgnoresRefetches ==
  \A c \in Calls :
    calls[c].op = "create"
    => /\ (Done(c) /\ calls[c].outcome.state = "fulfilled")
          => /\ mutation[c].status = "success"
             /\ mutation[c].result = calls[c].outcome.value
       /\ mutation[c].status = "error"
          => /\ Done(c) /\ calls[c].outcome.state = "rejected"
             /\ mutation[c].result = calls[c].outcome.value
       /\ mutation[c].status = "pending" => ~Done(c)

\* a create succeeded; a query sent after its write then failed and left its
\* invalidated entry in error, and the mutation is still a success
C28_Witness ==
  \E c, d \in Calls :
    /\ calls[c].op = "create" /\ mutation[c].status = "success"
    /\ IsQuery(calls[d]) /\ Done(d) /\ calls[d].outcome.state = "rejected"
    /\ calls[d].sentVer >= calls[c].outcome.value.ver
    /\ cache[calls[d].key].status = "error"
    /\ cache[calls[d].key].isInvalidated

\* C29: every call issues one transport request: a call that has started has
\* made exactly one attempt, with no retry by ky and no second invocation by
\* the cache engine, and a call whose request failed is finished as a
\* rejection (a create's mutation as an error) after that one attempt.
C29_NoRetry ==
  \A c \in Calls :
    /\ calls[c].pc # "idle"
       => /\ calls[c].attempts = 1
          /\ calls[c].retryCount = 0
          /\ calls[c].failureCount = 0
    /\ (Done(c) /\ calls[c].fault # Nil)
       => /\ calls[c].outcome.state = "rejected"
          /\ calls[c].op = "create" => mutation[c].status = "error"

\* a list query failed with 502 on its first request and was reported
C29_Witness ==
  /\ Done(1) /\ calls[1].op = "list"
  /\ calls[1].fault = HTTPError(1, 502, BodyEmpty)
  /\ calls[1].outcome.state = "rejected"
  /\ calls[1].attempts = 1
  /\ cache[calls[1].key].status = "error"

====
